---- MODULE Spec2Model ----
(***************************************************************************)
(* Model of entrypoint.py: the values-merge-and-package pipeline of the    *)
(* Helm packaging action.                                                  *)
(*                                                                         *)
(* YAML documents are tagged values [t, v]:                                *)
(*   t = "dict"   v = the items, a sequence of <<key, document>> pairs in  *)
(*                insertion order with distinct keys (a Python dict);      *)
(*   t = "list"   v = a sequence of integers (a YAML sequence);            *)
(*   t = "scalar" v = an integer;                                          *)
(*   t = "none"   v = 0 (Python None, what an empty YAML file loads to).   *)
(* Strings the code takes apart (values_files, package_args, the tool's    *)
(* output, versions, paths) are sequences of characters or components.     *)
(***************************************************************************)
EXTENDS Integers, Sequences, FiniteSets, TLC

VARIABLES
    pc,         \* where main() stands
    inp,        \* the environment of the run: the INPUT_* values and the initial file system
    local,      \* the local variables of main()
    files,      \* the file system: path -> content
    dirs,       \* the file system: the directories
    events,     \* what the run did to the outside: directories and files written, tools run
    outputs,    \* the values written by write_output
    ret,        \* main()'s return value, -1 while it runs
    error,      \* the exception main() caught, "" if none
    fn_pc, fn_args, fn_res   \* a single function under test: its call, arguments, result

fnvars == <<fn_pc, fn_args, fn_res>>
mainvars == <<pc, inp, local, files, dirs, events, outputs, ret, error>>
vars == <<pc, inp, local, files, dirs, events, outputs, ret, error, fn_pc, fn_args, fn_res>>

\* main() is not running: the specifications of single functions
MainIdle ==
    /\ pc = "idle" /\ inp = <<>> /\ local = <<>> /\ files = <<>> /\ dirs = {}
    /\ events = <<>> /\ outputs = <<>> /\ ret = -1 /\ error = ""

(***************************************************************************)
(* Bounds: the scalars of the document universe, the length of the raw     *)
(* package_args string and the length of the tool's output.                *)
(***************************************************************************)
MaxScalar == 2
MaxArgLen == 6
MaxOutLen == 5

(***************************************************************************)
(* Strings as sequences of one-character strings.                          *)
(***************************************************************************)
SeqsUpTo(S, n) == UNION {[1..m -> S] : m \in 0..n}

\* the Python string of a sequence of characters
RECURSIVE Str(_)
Str(cs) == IF cs = <<>> THEN "" ELSE Head(cs) \o Str(Tail(cs))

\* str.isspace for the characters str.strip() and shlex treat as whitespace
IsSpace(c) == c \in {" ", "\t", "\n", "\r"}

Min(S) == CHOOSE x \in S : \A y \in S : x <= y
Max(S) == CHOOSE x \in S : \A y \in S : x >= y

\* s.strip()
RECURSIVE LStrip(_)
LStrip(s) == IF s # <<>> /\ IsSpace(Head(s)) THEN LStrip(Tail(s)) ELSE s
RECURSIVE RStrip(_)
RStrip(s) ==
    IF s # <<>> /\ IsSpace(s[Len(s)]) THEN RStrip(SubSeq(s, 1, Len(s) - 1)) ELSE s
Strip(s) == RStrip(LStrip(s))

\* s.strip() is empty
StripIsEmpty(s) == \A i \in 1..Len(s) : IsSpace(s[i])

(***************************************************************************)
(* Documents.                                                              *)
(***************************************************************************)
Scalar(n) == [t |-> "scalar", v |-> n]
ListDoc(s) == [t |-> "list", v |-> s]
Dict(items) == [t |-> "dict", v |-> items]
NoneDoc == [t |-> "none", v |-> 0]
EmptyDict == Dict(<<>>)

\* isinstance(x, dict)
isinstance_dict(x) == x.t = "dict"

\* k in d, d[k], and the keys of a dict given by its items
DictKeys(items) == {items[i][1] : i \in 1..Len(items)}
KeyIn(k, items) == k \in DictKeys(items)
KeyIndex(k, items) == CHOOSE i \in 1..Len(items) : items[i][1] = k
GetItem(items, k) == items[KeyIndex(k, items)][2]
\* d[k] = v: an existing key keeps its position, a new key goes last
SetItem(items, k, v) ==
    IF KeyIn(k, items)
    THEN [items EXCEPT ![KeyIndex(k, items)] = <<k, v>>]
    ELSE Append(items, <<k, v>>)

RECURSIVE deep_merge_values(_, _)
RECURSIVE MergeLoop(_, _, _)

\* mutant: a shared key takes the override value without recursing
deep_merge_values_shallow(base, override) ==
    IF isinstance_dict(base) /\ isinstance_dict(override)
    THEN LET RECURSIVE Put(_, _)
             Put(merged, i) ==
                 IF i > Len(override.v) THEN merged
                 ELSE Put(SetItem(merged, override.v[i][1], override.v[i][2]), i + 1)
         IN  Dict(Put(base.v, 1))
    ELSE override

\* mutant: `return merged` indented into the loop, so that only the first
\* item of override is merged
MergeLoop_first_item_only(merged, items, i) ==
    IF i > Len(items) \/ i > 1 THEN merged
    ELSE LET k == items[i][1]
             v == items[i][2]
         IN  MergeLoop(
                 IF KeyIn(k, merged)
                 THEN SetItem(merged, k, deep_merge_values(GetItem(merged, k), v))
                 ELSE SetItem(merged, k, v),
                 items, i + 1)

\* the loop `for k, v in override.items()` over merged = dict(base)
MergeLoop(merged, items, i) ==
    IF i > Len(items) THEN merged
    ELSE LET k == items[i][1]
             v == items[i][2]
         IN  MergeLoop(
                 IF KeyIn(k, merged)
                 THEN SetItem(merged, k, deep_merge_values(GetItem(merged, k), v))
                 ELSE SetItem(merged, k, v),
                 items, i + 1)

deep_merge_values(base, override) ==
    IF isinstance_dict(base) /\ isinstance_dict(override)
    THEN Dict(MergeLoop(base.v, override.v, 1))
    ELSE override

(***************************************************************************)
(* The documents the merge is exercised on: leaves, one-key nested         *)
(* mappings, and top-level mappings of up to two keys in either order.     *)
(***************************************************************************)
Keys == {"x", "y"}
Leaves == {Scalar(n) : n \in 1..MaxScalar} \cup {ListDoc(<<1, 2>>), ListDoc(<<3>>)}
DictsOver(V) ==
    {EmptyDict}
    \cup {Dict(<< <<k, v>> >>) : k \in Keys, v \in V}
    \cup UNION {{Dict(<< <<k1, v1>>, <<k2, v2>> >>) :
                     k2 \in Keys \ {k1}, v1 \in V, v2 \in V} : k1 \in Keys}
Nested == {EmptyDict} \cup {Dict(<< <<k, v>> >>) : k \in Keys, v \in Leaves}
Docs == Leaves \cup DictsOver(Leaves \cup Nested)

(***************************************************************************)
(* SpecMerge: deep_merge_values applied to every pair of documents.        *)
(***************************************************************************)
InitMerge ==
    /\ MainIdle
    /\ fn_pc = "call"
    /\ fn_args \in Docs \X Docs
    /\ fn_res = NoneDoc

CallMerge ==
    /\ fn_pc = "call"
    /\ fn_res' = deep_merge_values(fn_args[1], fn_args[2])
    /\ fn_pc' = "done"
    /\ UNCHANGED <<fn_args, mainvars>>

NextMerge == CallMerge
SpecMerge == InitMerge /\ [][NextMerge]_vars

\* Python's == on documents: dicts compare by key set and values, whatever
\* the insertion order; everything else compares by kind and value
RECURSIVE DocEq(_, _)
DocEq(d1, d2) ==
    IF d1.t = "dict" /\ d2.t = "dict"
    THEN /\ DictKeys(d1.v) = DictKeys(d2.v)
         /\ \A k \in DictKeys(d1.v) : DocEq(GetItem(d1.v, k), GetItem(d2.v, k))
    ELSE d1.t = d2.t /\ d1.v = d2.v

\* r is the reference merge of base and override, stated key by key
RECURSIVE IsReferenceMerge(_, _, _)
IsReferenceMerge(base, override, r) ==
    IF base.t = "dict" /\ override.t = "dict"
    THEN /\ r.t = "dict"
         /\ Cardinality(DictKeys(r.v)) = Len(r.v)
         /\ DictKeys(r.v) = DictKeys(base.v) \cup DictKeys(override.v)
         /\ \A k \in DictKeys(r.v) :
                IF k \in DictKeys(base.v) /\ k \in DictKeys(override.v)
                THEN IsReferenceMerge(GetItem(base.v, k), GetItem(override.v, k),
                                      GetItem(r.v, k))
                ELSE IF k \in DictKeys(base.v)
                     THEN DocEq(GetItem(r.v, k), GetItem(base.v, k))
                     ELSE DocEq(GetItem(r.v, k), GetItem(override.v, k))
    ELSE DocEq(r, override)

\* C4: for all documents base and override, deep_merge_values(base, override)
\* is the reference merge: on two mappings the keys are the union, a key of
\* base alone keeps base's value, a key of override alone takes override's,
\* a shared key holds the recursive merge; otherwise the result is override
\* verbatim (a scalar or sequence override discards the base subtree, and
\* sequences are never merged element-wise).
C4_MergeIsReferenceMerge ==
    fn_pc = "done" => IsReferenceMerge(fn_args[1], fn_args[2], fn_res)

\* C4 witness: the merge has recursed into a shared mapping, replaced a
\* sequence by a sequence and a mapping by a scalar
C4_Witness ==
    /\ fn_pc = "done"
    /\ fn_args[1] = Dict(<< <<"x", Dict(<< <<"x", Scalar(1)>> >>)>>,
                            <<"y", ListDoc(<<1, 2>>)>> >>)
    /\ fn_args[2] = Dict(<< <<"y", ListDoc(<<3>>)>>,
                            <<"x", Dict(<< <<"y", Scalar(2)>> >>)>> >>)
    /\ fn_res = Dict(<< <<"x", Dict(<< <<"x", Scalar(1)>>, <<"y", Scalar(2)>> >>)>>,
                        <<"y", ListDoc(<<3>>)>> >>)

(***************************************************************************)
(* SpecAssoc: the two groupings of a merge of three documents.             *)
(***************************************************************************)
NestedA == {EmptyDict, Dict(<< <<"x", Scalar(1)>> >>)}
DocsA ==
    LET V == Leaves \cup NestedA
    IN  Leaves \cup {EmptyDict}
        \cup {Dict(<< <<k, v>> >>) : k \in Keys, v \in V}
        \cup {Dict(<< <<"x", v1>>, <<"y", v2>> >>) : v1 \in V, v2 \in V}

InitAssoc ==
    /\ MainIdle
    /\ fn_pc = "call"
    /\ fn_args \in DocsA \X DocsA \X DocsA
    /\ fn_res = NoneDoc

CallAssoc ==
    /\ fn_pc = "call"
    /\ fn_res' = [left |-> deep_merge_values(deep_merge_values(fn_args[1], fn_args[2]),
                                             fn_args[3]),
                  right |-> deep_merge_values(fn_args[1],
                                              deep_merge_values(fn_args[2], fn_args[3]))]
    /\ fn_pc' = "grouped"
    /\ UNCHANGED <<fn_args, mainvars>>

NextAssoc == CallAssoc
SpecAssoc == InitAssoc /\ [][NextAssoc]_vars

\* at the root, or at a path of keys that a, b and c all hold, a and c are
\* mappings and b is not
RECURSIVE Blocked(_, _, _)
Blocked(a, b, c) ==
    \/ a.t = "dict" /\ b.t # "dict" /\ c.t = "dict"
    \/ /\ a.t = "dict" /\ b.t = "dict" /\ c.t = "dict"
       /\ \E k \in DictKeys(a.v) \cap DictKeys(b.v) \cap DictKeys(c.v) :
              Blocked(GetItem(a.v, k), GetItem(b.v, k), GetItem(c.v, k))

\* C10 as stated: deep_merge_values(deep_merge_values(a, b), c) equals
\* deep_merge_values(a, deep_merge_values(b, c)) for all documents a, b, c.
C10_Associative ==
    fn_pc = "grouped" => DocEq(fn_res.left, fn_res.right)

\* C10 amended: the two groupings agree for all a, b, c except where, at the
\* root or at a path of keys held by all three, a and c are mappings and b
\* is not; at such a root the left grouping yields c and the right grouping
\* yields deep_merge_values(a, c).
C10_AssociativeUnlessBlocked ==
    fn_pc = "grouped" =>
        /\ ~Blocked(fn_args[1], fn_args[2], fn_args[3])
               => DocEq(fn_res.left, fn_res.right)
        /\ (fn_args[1].t = "dict" /\ fn_args[2].t # "dict" /\ fn_args[3].t = "dict")
               => /\ DocEq(fn_res.left, fn_args[3])
                  /\ DocEq(fn_res.right, deep_merge_values(fn_args[1], fn_args[3]))

\* C10 witness: three mappings sharing a key whose values are mappings, a
\* sequence and a scalar meeting at another key, merged in both groupings
C10_Witness ==
    /\ fn_pc = "grouped"
    /\ fn_args[1] = Dict(<< <<"x", Dict(<< <<"x", Scalar(1)>> >>)>>, <<"y", ListDoc(<<1, 2>>)>> >>)
    /\ fn_args[2] = Dict(<< <<"x", EmptyDict>>, <<"y", Scalar(2)>> >>)
    /\ fn_args[3] = Dict(<< <<"x", Dict(<< <<"x", Scalar(1)>> >>)>>, <<"y", ListDoc(<<3>>)>> >>)
    /\ ~Blocked(fn_args[1], fn_args[2], fn_args[3])
    /\ fn_res.left = fn_res.right
    /\ fn_res.left = Dict(<< <<"x", Dict(<< <<"x", Scalar(1)>> >>)>>, <<"y", ListDoc(<<3>>)>> >>)

(***************************************************************************)
(* Input helpers of entrypoint.py on strings given as piece sequences.     *)
(***************************************************************************)
\* get_input: the environment value, or the default; [raised, val]
get_input(val, default, required, has_default) ==
    IF val = <<>>
    THEN IF required /\ ~has_default
         THEN [raised |-> TRUE, val |-> <<>>]
         ELSE [raised |-> FALSE, val |-> default]
    ELSE [raised |-> FALSE, val |-> val]

\* str.lower() on the letters the inputs are written with
Lower(c) ==
    CASE c = "T" -> "t" [] c = "R" -> "r" [] c = "U" -> "u" [] c = "E" -> "e"
      [] c = "O" -> "o" [] c = "N" -> "n" [] c = "Y" -> "y" [] c = "S" -> "s"
      [] OTHER -> c
LowerAll(s) == [i \in 1..Len(s) |-> Lower(s[i])]

truthy(s) == Str(LowerAll(Strip(s))) \in {"1", "true", "yes", "y", "on"}

\* s.split(sep) for a one-piece separator: the stretches between separators
RECURSIVE SplitOn(_, _)
SplitOn(s, seps) ==
    LET cut == {i \in 1..Len(s) : s[i] \in seps}
    IN  IF cut = {} THEN <<s>>
        ELSE <<SubSeq(s, 1, Min(cut) - 1)>>
                 \o SplitOn(SubSeq(s, Min(cut) + 1, Len(s)), seps)

RECURSIVE StripNonEmpty(_)
StripNonEmpty(parts) ==
    IF parts = <<>> THEN <<>>
    ELSE IF Strip(Head(parts)) # <<>>
         THEN <<Strip(Head(parts))>> \o StripNonEmpty(Tail(parts))
         ELSE StripNonEmpty(Tail(parts))

\* re.split(r"[,\n\r]+", raw), each part stripped, the empty ones dropped
parse_values_files(values_files_raw) ==
    StripNonEmpty(SplitOn(values_files_raw, {",", "\n", "\r"}))

(***************************************************************************)
(* semver.VersionInfo.parse(version.strip()) succeeds: MAJOR.MINOR.PATCH   *)
(* without leading zeros, an optional -prerelease and an optional +build.  *)
(***************************************************************************)
Digits == {"0", "1", "2", "3", "4", "5", "6", "7", "8", "9"}
IsAlnumHyphen(c) == c \in Digits \cup {"a", "b", "-"}
IsNumericId(id) ==
    /\ id # <<>>
    /\ \A i \in 1..Len(id) : id[i] \in Digits
    /\ (Len(id) > 1 => id[1] # "0")
IsBuildId(id) == id # <<>> /\ \A i \in 1..Len(id) : IsAlnumHyphen(id[i])
IsPrereleaseId(id) ==
    \/ IsNumericId(id)
    \/ IsBuildId(id) /\ \E i \in 1..Len(id) : id[i] \notin Digits
AllNumericIds(s) ==
    LET ids == SplitOn(s, {"."}) IN \A i \in 1..Len(ids) : IsNumericId(ids[i])
AllPrereleaseIds(s) ==
    LET ids == SplitOn(s, {"."}) IN \A i \in 1..Len(ids) : IsPrereleaseId(ids[i])
AllBuildIds(s) ==
    LET ids == SplitOn(s, {"."}) IN \A i \in 1..Len(ids) : IsBuildId(ids[i])

\* mutant: numeric components may carry leading zeros
validate_version_leading_zeros(version) ==
    LET s == Strip(version)
        core == SplitOn(s, {"."})
    IN  /\ Len(core) = 3
        /\ \A i \in 1..3 : core[i] # <<>> /\ \A j \in 1..Len(core[i]) : core[i][j] \in Digits

validate_version(version) ==
    LET s == Strip(version)
        plus == {i \in 1..Len(s) : s[i] = "+"}
        nobuild == IF plus = {} THEN s ELSE SubSeq(s, 1, Min(plus) - 1)
        build == IF plus = {} THEN <<>> ELSE SubSeq(s, Min(plus) + 1, Len(s))
        dash == {i \in 1..Len(nobuild) : nobuild[i] = "-"}
        core == IF dash = {} THEN nobuild ELSE SubSeq(nobuild, 1, Min(dash) - 1)
        pre == IF dash = {} THEN <<>> ELSE SubSeq(nobuild, Min(dash) + 1, Len(nobuild))
    IN  /\ Len(SplitOn(core, {"."})) = 3
        /\ AllNumericIds(core)
        /\ (dash # {} => AllPrereleaseIds(pre))
        /\ (plus # {} => AllBuildIds(build))

(***************************************************************************)
(* posixpath on paths given as piece sequences: "/" separates, "." and     *)
(* ".." (two "." pieces) are the special components, every other piece is  *)
(* part of a name.                                                         *)
(***************************************************************************)
Slash == "/"
DotDot == <<".", ".">>

isabs(p) == p # <<>> /\ p[1] = Slash

\* os.path.join(a, b)
join(a, b) ==
    IF isabs(b) THEN b
    ELSE IF a = <<>> \/ a[Len(a)] = Slash THEN a \o b
    ELSE a \o <<Slash>> \o b

RECURSIVE JoinComps(_)
JoinComps(comps) ==
    IF comps = <<>> THEN <<>>
    ELSE IF Len(comps) = 1 THEN comps[1]
    ELSE comps[1] \o <<Slash>> \o JoinComps(Tail(comps))

\* the loop of normpath over the components
RECURSIVE NormComps(_, _, _)
NormComps(comps, new_comps, rooted) ==
    IF comps = <<>> THEN new_comps
    ELSE LET comp == Head(comps)
         IN  IF comp = <<>> \/ comp = <<".">>
             THEN NormComps(Tail(comps), new_comps, rooted)
             ELSE IF \/ comp # DotDot
                     \/ (~rooted /\ new_comps = <<>>)
                     \/ (new_comps # <<>> /\ new_comps[Len(new_comps)] = DotDot)
             THEN NormComps(Tail(comps), Append(new_comps, comp), rooted)
             ELSE IF new_comps # <<>>
             THEN NormComps(Tail(comps), SubSeq(new_comps, 1, Len(new_comps) - 1), rooted)
             ELSE NormComps(Tail(comps), new_comps, rooted)

\* os.path.normpath(p); exactly two leading slashes are kept as POSIX asks
normpath(p) ==
    IF p = <<>> THEN <<".">>
    ELSE LET rooted == isabs(p)
             two == /\ Len(p) >= 2 /\ p[1] = Slash /\ p[2] = Slash
                    /\ ~(Len(p) >= 3 /\ p[3] = Slash)
             lead == IF ~rooted THEN <<>>
                     ELSE IF two THEN <<Slash, Slash>> ELSE <<Slash>>
             path == lead \o JoinComps(NormComps(SplitOn(p, {Slash}), <<>>, rooted))
         IN  IF path = <<>> THEN <<".">> ELSE path

\* os.path.basename(p)
basename(p) ==
    LET cut == {i \in 1..Len(p) : p[i] = Slash}
    IN  IF cut = {} THEN p ELSE SubSeq(p, Max(cut) + 1, Len(p))

resolve_path(workspace, p) ==
    IF isabs(p) THEN normpath(p) ELSE normpath(join(workspace, p))

NonEmptyComps(p) == SelectSeq(SplitOn(p, {Slash}), LAMBDA c : c # <<>>)

\* len(commonprefix([start_list, path_list]))
CommonLen(a, b) ==
    Max({n \in 0..Min({Len(a), Len(b)}) : SubSeq(a, 1, n) = SubSeq(b, 1, n)})

\* os.path.relpath(path, start) for absolute arguments
relpath(path, start) ==
    LET start_list == NonEmptyComps(normpath(start))
        path_list == NonEmptyComps(normpath(path))
        i == CommonLen(start_list, path_list)
        rel_list == [k \in 1..(Len(start_list) - i) |-> DotDot]
                        \o SubSeq(path_list, i + 1, Len(path_list))
    IN  IF rel_list = <<>> THEN <<".">> ELSE JoinComps(rel_list)

\* relpath raises ValueError only for an empty path: never here
workspace_relpath(workspace, p) == relpath(normpath(p), normpath(workspace))

\* mutant: an empty file stays None
load_yaml_file_keep_none(data) == data

\* load_yaml_file: the document of the file, {} for an empty one
load_yaml_file(data) == IF data = NoneDoc THEN EmptyDict ELSE data

(***************************************************************************)
(* shlex.split(s) in POSIX mode: whitespace separates tokens, a quoted     *)
(* stretch joins the token around it, a quote left open raises ValueError. *)
(* state is " " between tokens, "a" inside a word, or the open quote.      *)
(***************************************************************************)
QuoteChars == {"\"", "'"}

RECURSIVE shlex_read(_, _, _, _, _)
shlex_read(s, i, state, token, acc) ==
    IF i > Len(s)
    THEN IF state \in QuoteChars
         THEN [raised |-> TRUE, tokens |-> <<>>]
         ELSE [raised |-> FALSE,
               tokens |-> IF state = "a" THEN Append(acc, Str(token)) ELSE acc]
    ELSE LET c == s[i]
         IN  IF state = " "
             THEN IF IsSpace(c) THEN shlex_read(s, i + 1, " ", <<>>, acc)
                  ELSE IF c \in QuoteChars THEN shlex_read(s, i + 1, c, <<>>, acc)
                  ELSE shlex_read(s, i + 1, "a", <<c>>, acc)
             ELSE IF state = "a"
             THEN IF IsSpace(c) THEN shlex_read(s, i + 1, " ", <<>>, Append(acc, Str(token)))
                  ELSE IF c \in QuoteChars THEN shlex_read(s, i + 1, c, token, acc)
                  ELSE shlex_read(s, i + 1, "a", Append(token, c), acc)
             ELSE IF c = state THEN shlex_read(s, i + 1, "a", token, acc)
                  ELSE shlex_read(s, i + 1, state, Append(token, c), acc)

shlex_split(s) == shlex_read(s, 1, " ", <<>>, <<>>)

\* mutant: the extra tokens go in front of the fixed tokens
build_helm_package_cmd_extra_first(chart_path, destination, helm_chart_version, helm_chart_app_version, package_args) ==
    LET cmd == <<"helm", "package", chart_path, "--destination", destination,
                 "--version", helm_chart_version,
                 "--app-version", helm_chart_app_version>>
        extra == IF StripIsEmpty(package_args)
                 THEN [raised |-> FALSE, tokens |-> <<>>]
                 ELSE shlex_split(package_args)
    IN  IF extra.raised
        THEN [raised |-> TRUE, cmd |-> <<>>]
        ELSE [raised |-> FALSE, cmd |-> extra.tokens \o cmd]

\* [raised, cmd]: the token list, or the ValueError of shlex.split
build_helm_package_cmd(chart_path, destination, helm_chart_version, helm_chart_app_version, package_args) ==
    LET cmd == <<"helm", "package", chart_path, "--destination", destination,
                 "--version", helm_chart_version,
                 "--app-version", helm_chart_app_version>>
        extra == IF StripIsEmpty(package_args)
                 THEN [raised |-> FALSE, tokens |-> <<>>]
                 ELSE shlex_split(package_args)
    IN  IF extra.raised
        THEN [raised |-> TRUE, cmd |-> <<>>]
        ELSE [raised |-> FALSE, cmd |-> cmd \o extra.tokens]

(***************************************************************************)
(* SpecCmd: build_helm_package_cmd on every package_args string of up to   *)
(* MaxArgLen characters.                                                   *)
(***************************************************************************)
ArgAlphabet == {"a", "b", " ", "\""}

InitCmd ==
    /\ MainIdle
    /\ fn_pc = "call"
    /\ fn_args \in [chart_path : {"/ws/chart", "/ws/.dist-temporary-1/chart"},
                     destination : {"/ws/dist"},
                     helm_chart_version : {"1.2.3", "0.1.0"},
                     helm_chart_app_version : {"4.5.6", "1.2.3"},
                     package_args : SeqsUpTo(ArgAlphabet, MaxArgLen)]
    /\ fn_res = NoneDoc

CallBuild ==
    /\ fn_pc = "call"
    /\ fn_res' = build_helm_package_cmd(fn_args.chart_path, fn_args.destination,
                                        fn_args.helm_chart_version,
                                        fn_args.helm_chart_app_version,
                                        fn_args.package_args)
    /\ fn_pc' = "built"
    /\ UNCHANGED <<fn_args, mainvars>>

NextCmd == CallBuild
SpecCmd == InitCmd /\ [][NextCmd]_vars

\* The tokens of a raw argument string, stated position by position: a
\* space outside quotes separates, a quote character delimits and is not
\* part of a token, every other character is kept.
QuotesBefore(s, i) == Cardinality({j \in 1..(i - 1) : s[j] = "\""})
IsSep(s, i) == IsSpace(s[i]) /\ QuotesBefore(s, i) % 2 = 0
TokenStarts(s) ==
    {i \in 1..Len(s) : ~IsSep(s, i) /\ (i = 1 \/ IsSep(s, i - 1))}
TokenEnd(s, i) ==
    CHOOSE j \in i..Len(s) :
        /\ \A k \in i..j : ~IsSep(s, k)
        /\ (j = Len(s) \/ IsSep(s, j + 1))
NotQuote(c) == c # "\""
TokenAt(s, i) == Str(SelectSeq(SubSeq(s, i, TokenEnd(s, i)), NotQuote))
NthStart(s, n) ==
    CHOOSE i \in TokenStarts(s) :
        Cardinality({j \in TokenStarts(s) : j < i}) = n - 1
RefTokens(s) == [n \in 1..Cardinality(TokenStarts(s)) |-> TokenAt(s, NthStart(s, n))]
QuotesClosed(s) == QuotesBefore(s, Len(s) + 1) % 2 = 0

FixedPrefix(a) ==
    <<"helm", "package", a.chart_path, "--destination", a.destination,
      "--version", a.helm_chart_version,
      "--app-version", a.helm_chart_app_version>>

\* a token list: the nine fixed tokens in order, then the tokens of
\* package_args in their order, nothing else
IsClaimedCmd(a, r) ==
    /\ ~r.raised
    /\ Len(r.cmd) >= 9
    /\ SubSeq(r.cmd, 1, 9) = FixedPrefix(a)
    /\ SubSeq(r.cmd, 10, Len(r.cmd)) = RefTokens(a.package_args)
    /\ StripIsEmpty(a.package_args) => Len(r.cmd) = 9

\* C9 as stated: for all inputs, build_helm_package_cmd returns a token list
\* whose first nine tokens are the fixed tokens in order, followed by exactly
\* the tokens of package_args in their original order.
C9_CmdForAllInputs ==
    fn_pc = "built" => IsClaimedCmd(fn_args, fn_res)

\* C9 amended: that holds for every input whose package_args tokenizes
\* (every quotation closed); with a quotation left open the builder raises
\* and returns no token list.
C9_CmdWhenTokenizable ==
    fn_pc = "built" =>
        IF QuotesClosed(fn_args.package_args)
        THEN IsClaimedCmd(fn_args, fn_res)
        ELSE fn_res.raised

\* C9 witness: two extra tokens, the second quoted with a space inside,
\* appended after the nine fixed tokens
C9_Witness ==
    /\ fn_pc = "built"
    /\ fn_args.package_args = <<"b", " ", "\"", " ", "a", "\"">>
    /\ ~fn_res.raised
    /\ fn_res.cmd = FixedPrefix(fn_args) \o <<"b", " a">>

(***************************************************************************)
(* The artifact path, main() lines 315-331.  The tool's output is a        *)
(* sequence of pieces: an occurrence of "saved it to:" in some letter case *)
(* (one piece), a space, a line break, or a path character.                *)
(***************************************************************************)
SavedMarkers == {"saved it to:", "Saved It To:"}
IsMarker(c) == c \in SavedMarkers

\* mutant: the last occurrence of the pattern is taken
re_search_saved_last(out) ==
    LET ms == {i \in 1..Len(out) : IsMarker(out[i])
                  /\ \E q \in (i + 1)..Len(out) : out[q] # "\n"}
    IN  IF ms = {} THEN [matched |-> FALSE, group |-> <<>>]
        ELSE LET p == Max(ms)
                 q == Min({k \in (p + 1)..Len(out) : ~IsSpace(out[k])}
                          \cup {Max({k \in (p + 1)..Len(out) : out[k] # "\n"})})
                 e == CHOOSE j \in q..Len(out) :
                          /\ \A k \in q..j : out[k] # "\n"
                          /\ (j = Len(out) \/ out[j + 1] = "\n")
             IN  [matched |-> TRUE, group |-> SubSeq(out, q, e)]

\* re.search(r"saved it to:\s*(.+)\s*$", out, IGNORECASE | MULTILINE): the
\* leftmost match.  It starts at the first occurrence of the marker; \s* is
\* greedy and spans line breaks, (.+) is greedy and stops at a line break, $
\* is then satisfied at the end of that line.  When only whitespace follows
\* the marker, \s* backs off to the last character that is not a line break
\* and (.+) takes it; when only line breaks follow, nothing matches (and no
\* later start can: no marker follows).
re_search_saved(out) ==
    LET ms == {i \in 1..Len(out) : IsMarker(out[i])}
    IN  IF ms = {} THEN [matched |-> FALSE, group |-> <<>>]
        ELSE LET p == Min(ms)
                 nonws == {k \in (p + 1)..Len(out) : ~IsSpace(out[k])}
                 nonbr == {k \in (p + 1)..Len(out) : out[k] # "\n"}
             IN  IF nonws # {}
                 THEN LET q == Min(nonws)
                          e == CHOOSE j \in q..Len(out) :
                                   /\ \A k \in q..j : out[k] # "\n"
                                   /\ (j = Len(out) \/ out[j + 1] = "\n")
                      IN  [matched |-> TRUE, group |-> SubSeq(out, q, e)]
                 ELSE IF nonbr # {}
                      THEN [matched |-> TRUE, group |-> <<out[Max(nonbr)]>>]
                      ELSE [matched |-> FALSE, group |-> <<>>]

\* tgzs.sort(key=getmtime, reverse=True); tgzs[0]: the sort is stable, so
\* among the newest the first in glob order
Newest(tgzs) ==
    LET top == Max({tgzs[i].mtime : i \in 1..Len(tgzs)})
    IN  tgzs[Min({i \in 1..Len(tgzs) : tgzs[i].mtime = top})]

\* mutant: the `if not package_path: raise` test is dropped
extract_package_path_unchecked(out, tgzs) ==
    LET m == re_search_saved(out)
        package_path == IF m.matched THEN Strip(m.group)
                        ELSE IF tgzs # <<>> THEN Newest(tgzs).name
                        ELSE <<>>
    IN  [raised |-> FALSE, package_path |-> package_path]

\* lines 315-331; tgzs is glob(destination/*.tgz) with the files' mtimes.
\* package_path None and "" are both <<>>: `if not package_path` raises.
extract_package_path(out, tgzs) ==
    LET m == re_search_saved(out)
        package_path == IF m.matched THEN Strip(m.group)
                        ELSE IF tgzs # <<>> THEN Newest(tgzs).name
                        ELSE <<>>
    IN  [raised |-> package_path = <<>>, package_path |-> package_path]

(***************************************************************************)
(* SpecExtract: the artifact path of every tool output of up to MaxOutLen  *)
(* pieces, with up to two archives in the destination.                     *)
(***************************************************************************)
OutAlphabet == SavedMarkers \cup {" ", "\n", "x", "y"}
OldTgz(m) == [name |-> <<"/", "d", "/", "old.tgz">>, mtime |-> m]
NewTgz(m) == [name |-> <<"/", "d", "/", "new.tgz">>, mtime |-> m]
TgzListings ==
    {<<>>, <<OldTgz(1)>>, <<OldTgz(1), NewTgz(2)>>, <<NewTgz(2), OldTgz(1)>>,
     <<OldTgz(2), NewTgz(2)>>}

InitExtract ==
    /\ MainIdle
    /\ fn_pc = "call"
    /\ fn_args \in [out : SeqsUpTo(OutAlphabet, MaxOutLen), tgzs : TgzListings]
    /\ fn_res = NoneDoc

CallExtract ==
    /\ fn_pc = "call"
    /\ fn_res' = extract_package_path(fn_args.out, fn_args.tgzs)
    /\ fn_pc' = "extracted"
    /\ UNCHANGED <<fn_args, mainvars>>

NextExtract == CallExtract
SpecExtract == InitExtract /\ [][NextExtract]_vars

\* The lines of the output and, per line, the trimmed text after the
\* line's first marker; a line matches "saved it to: <path>" when that text
\* is not empty.
LineNo(out, i) == 1 + Cardinality({j \in 1..(i - 1) : out[j] = "\n"})
LinePos(out, n) == {i \in 1..Len(out) : LineNo(out, i) = n /\ out[i] # "\n"}
MarkerLines(out) ==
    {n \in 1..(Len(out) + 1) : \E i \in LinePos(out, n) : IsMarker(out[i])}
LinePath(out, n) ==
    LET i == Min({j \in LinePos(out, n) : IsMarker(out[j])})
    IN  Strip(SubSeq(out, i + 1, Max(LinePos(out, n))))
MatchingLines(out) == {n \in MarkerLines(out) : LinePath(out, n) # <<>>}

\* the archive scan is chosen only when no line matches, and then it is a
\* most recently modified archive
ScanOnlyWithoutMatch(a, r) ==
    (\E i \in 1..Len(a.tgzs) : r.package_path = a.tgzs[i].name)
        => /\ MatchingLines(a.out) = {}
           /\ \E i \in 1..Len(a.tgzs) :
                  /\ r.package_path = a.tgzs[i].name
                  /\ \A j \in 1..Len(a.tgzs) : a.tgzs[j].mtime <= a.tgzs[i].mtime

\* C6 as stated: when one or more lines match "saved it to: <path>", the
\* artifact is the trimmed <path> of the LAST such line, also when the
\* destination holds archives; the newest archive is chosen only when no
\* line matches.
C6_LastSavedLine ==
    fn_pc = "extracted" =>
        /\ MatchingLines(fn_args.out) # {}
               => /\ ~fn_res.raised
                  /\ fn_res.package_path
                         = LinePath(fn_args.out, Max(MatchingLines(fn_args.out)))
        /\ ScanOnlyWithoutMatch(fn_args, fn_res)

\* C6 amended: when one or more lines match and the first occurrence of
\* the marker is on such a line, the artifact is the trimmed <path> of the
\* FIRST such line, also when the destination holds archives; the newest
\* archive is chosen only when no line matches.
C6_FirstSavedLine ==
    fn_pc = "extracted" =>
        /\ (/\ MatchingLines(fn_args.out) # {}
            /\ Min(MarkerLines(fn_args.out)) \in MatchingLines(fn_args.out))
               => /\ ~fn_res.raised
                  /\ fn_res.package_path
                         = LinePath(fn_args.out, Min(MatchingLines(fn_args.out)))
        /\ ScanOnlyWithoutMatch(fn_args, fn_res)

\* C6 witness: two matching lines and two archives in the destination; the
\* first line's path is reported
C6_Witness ==
    /\ fn_pc = "extracted"
    /\ fn_args.out = <<"Saved It To:", "x", "\n", "saved it to:", "y">>
    /\ Len(fn_args.tgzs) = 2
    /\ fn_res = [raised |-> FALSE, package_path |-> <<"x">>]

\* the archive scan happened: no marker in the output, the newest of two
\* archives is reported
C6_WitnessScan ==
    /\ fn_pc = "extracted"
    /\ fn_args.out = <<"x", "\n">>
    /\ Len(fn_args.tgzs) = 2
    /\ fn_args.tgzs[1].mtime < fn_args.tgzs[2].mtime
    /\ fn_res.package_path = fn_args.tgzs[2].name

(***************************************************************************)
(* The file system: absolute normalized paths; a file's content is a       *)
(* tagged value: a YAML file holds the document it parses to (NoneDoc for  *)
(* an empty file), Chart.yaml a manifest, an archive its modification      *)
(* time.                                                                   *)
(***************************************************************************)
Manifest == [t |-> "manifest", v |-> 0]
Lock == [t |-> "lock", v |-> 0]
Tgz(mtime) == [t |-> "tgz", v |-> mtime]

Comps(p) == NonEmptyComps(p)
FromComps(comps) == <<Slash>> \o JoinComps(comps)
\* d is p or an ancestor directory of p
PathUnder(p, d) ==
    /\ Len(Comps(d)) <= Len(Comps(p))
    /\ SubSeq(Comps(p), 1, Len(Comps(d))) = Comps(d)
Ancestors(p) == {FromComps(SubSeq(Comps(p), 1, n)) : n \in 0..Len(Comps(p))}

\* os.path.isfile(p)
isfile(fs, p) == normpath(p) \in DOMAIN fs

\* the place under dst of an entry f of the tree at src
Rebase(f, src, dst) ==
    FromComps(Comps(dst) \o SubSeq(Comps(f), Len(Comps(src)) + 1, Len(Comps(f))))

\* the files after copying the tree at src to dst, the entries in skip
\* left out
CopyFiles(fs, src, dst, skip) ==
    LET srcs == {f \in DOMAIN fs : PathUnder(f, src) /\ f \notin skip}
        news == {Rebase(f, src, dst) : f \in srcs}
    IN  [q \in DOMAIN fs \cup news |->
            IF q \in news
            THEN fs[CHOOSE f \in srcs : Rebase(f, src, dst) = q]
            ELSE fs[q]]
CopyDirs(ds, src, dst) ==
    ds \cup {Rebase(d, src, dst) : d \in {x \in ds \cup {dst} : PathUnder(x, src)}}

\* glob.glob(destination/*.tgz): the archives directly in the destination
\* ("*" matches no leading dot)
IsTgzName(name) ==
    Len(name) >= 2 /\ name[Len(name)] = ".tgz" /\ name[1] # "." /\ Slash \notin
        {name[i] : i \in 1..Len(name)}
GlobTgz(fs, destination) ==
    {f \in DOMAIN fs :
        /\ Len(Comps(f)) = Len(Comps(destination)) + 1
        /\ PathUnder(f, destination)
        /\ IsTgzName(Comps(f)[Len(Comps(f))])}

(***************************************************************************)
(* The runs of main(): the workspace is /r/ws; the chart directory lies at *)
(* /r/ws/c, or is the workspace itself, or is its parent /r.               *)
(***************************************************************************)
Workspace == <<Slash, "r", Slash, "ws">>
TmpName == <<".dist-temporary-", "k7">>
ChartYaml == <<"Chart.yaml">>
ValuesYaml == <<"values.yaml">>
OrigValues == Dict(<< <<"x", Scalar(9)>> >>)

ChartPathInputs == {<<>>, <<"c">>, <<".">>, DotDot}
\* where the chart path input points
ChartDirOf(chart_path_in) ==
    IF chart_path_in = <<".">> THEN Workspace
    ELSE IF chart_path_in = DotDot THEN <<Slash, "r">>
    ELSE Workspace \o <<Slash, "c">>

VersionInputs ==
    {<<"1", ".", "2", ".", "3">>, <<"0", "1", ".", "2", ".", "3">>, <<"1", ".", "2">>}
InvalidVersionInputs == {<<"0", "1", ".", "2", ".", "3">>, <<"1", ".", "2">>}

ValuesFilesInputs ==
    {<<>>,
     <<" ", ",", "\n", " ">>,
     <<"a.yaml">>,
     <<"a.yaml", ",", " ", "b.yaml">>,
     <<"b.yaml", "\n", "e.yaml", "\r", "\n", "a.yaml", ",">>,
     <<"a.yaml", ",", "n.yaml">>}

PackageArgsInputs == {<<>>, <<"-", "-", "d", " ", "x">>, <<"\"", "a">>}

DocA == Dict(<< <<"x", Dict(<< <<"y", Scalar(1)>> >>)>>, <<"w", ListDoc(<<1, 2>>)>> >>)
DocB == Dict(<< <<"w", ListDoc(<<3>>)>>,
                <<"x", Dict(<< <<"y", Scalar(2)>>, <<"z", Scalar(2)>> >>)>> >>)
MainDocs == {NoneDoc, Scalar(1), DocA, DocB}

InitFiles(chart_dir, manifest, da, db) ==
    LET at(name) == chart_dir \o <<Slash>> \o name
        base == (at(ValuesYaml) :> OrigValues) @@ (at(<<"a.yaml">>) :> da)
                    @@ (at(<<"b.yaml">>) :> db) @@ (at(<<"e.yaml">>) :> NoneDoc)
                    @@ ((Workspace \o <<Slash, "old", ".tgz">>) :> Tgz(1))
    IN  IF manifest THEN (at(ChartYaml) :> Manifest) @@ base ELSE base
InitDirs == {<<Slash>>, <<Slash, "r">>, Workspace, Workspace \o <<Slash, "c">>}

NoLocal ==
    [chart_path_in |-> <<>>, destination_in |-> <<>>, dependency_update |-> FALSE,
     package_args_in |-> <<>>, helm_chart_version |-> <<>>,
     helm_chart_app_version |-> <<>>, values_files_raw |-> <<>>,
     chart_path |-> <<>>, destination |-> <<>>, values_files |-> <<>>,
     chart_path_for_packaging |-> <<>>, merged_values |-> NoneDoc, i |-> 0,
     tmp_root |-> <<>>, tmp_chart |-> <<>>, cmd |-> <<>>,
     res |-> [returncode |-> -1, stdout |-> <<>>], package_path |-> <<>>]

Init ==
    /\ pc = "start"
    /\ \E cp \in ChartPathInputs, dst \in {<<>>, <<"d">>}, ver \in VersionInputs,
          vf \in ValuesFilesInputs, dep \in {<<>>, <<"O", "n", " ">>},
          pa \in PackageArgsInputs, manifest \in BOOLEAN,
          da \in MainDocs, db \in MainDocs :
          inp = [chart_path |-> cp, destination |-> dst, helm_chart_version |-> ver,
                 helm_chart_app_version |-> <<"4", ".", "5", ".", "6">>,
                 values_files |-> vf, dependency_update |-> dep, package_args |-> pa,
                 files |-> InitFiles(ChartDirOf(cp), manifest, da, db),
                 dirs |-> InitDirs]
    /\ local = NoLocal
    /\ files = inp.files
    /\ dirs = inp.dirs
    /\ events = <<>>
    /\ outputs = <<>>
    /\ ret = -1
    /\ error = ""
    /\ fn_pc = "none" /\ fn_args = <<>> /\ fn_res = <<>>

Event(op, path, cmd) == [op |-> op, path |-> path, cmd |-> cmd]

\* `except Exception as ex: eprint(...); return 1`, lines 340-342
Raise(kind) ==
    /\ pc' = "done"
    /\ ret' = 1
    /\ error' = kind

\* lines 252-261
ReadInputs ==
    /\ pc = "start"
    /\ LET chart_path_in == get_input(inp.chart_path, <<>>, TRUE, FALSE)
           destination_in == get_input(inp.destination, <<".">>, FALSE, TRUE)
           dependency_update == get_input(inp.dependency_update,
                                          <<"f", "a", "l", "s", "e">>, FALSE, TRUE)
           package_args_in == get_input(inp.package_args, <<>>, FALSE, TRUE)
           helm_chart_version == get_input(inp.helm_chart_version, <<>>, TRUE, FALSE)
           helm_chart_app_version == get_input(inp.helm_chart_app_version, <<>>, TRUE, FALSE)
           values_files_raw == get_input(inp.values_files, <<>>, FALSE, TRUE)
       IN  IF \/ chart_path_in.raised \/ helm_chart_version.raised
              \/ helm_chart_app_version.raised
           THEN Raise("Missing required input") /\ UNCHANGED local
           ELSE /\ local' = [local EXCEPT
                        !.chart_path_in = chart_path_in.val,
                        !.destination_in = destination_in.val,
                        !.dependency_update = truthy(dependency_update.val),
                        !.package_args_in = package_args_in.val,
                        !.helm_chart_version = helm_chart_version.val,
                        !.helm_chart_app_version = helm_chart_app_version.val,
                        !.values_files_raw = values_files_raw.val]
                /\ pc' = "validate"
                /\ UNCHANGED <<ret, error>>
    /\ UNCHANGED <<inp, files, dirs, events, outputs, fnvars>>

\* lines 263-264
ValidateVersion ==
    /\ pc = "validate"
    /\ IF ~validate_version(local.helm_chart_version)
       THEN Raise("Invalid helm chart version")
       ELSE pc' = "resolve" /\ UNCHANGED <<ret, error>>
    /\ UNCHANGED <<inp, local, files, dirs, events, outputs, fnvars>>

\* lines 266-271
ResolveAndCheckChart ==
    /\ pc = "resolve"
    /\ LET chart_path == resolve_path(Workspace, local.chart_path_in)
           destination == resolve_path(Workspace, local.destination_in)
           chart_yaml == join(chart_path, ChartYaml)
       IN  /\ local' = [local EXCEPT !.chart_path = chart_path,
                                     !.destination = destination]
           /\ IF ~isfile(files, chart_yaml)
              THEN Raise("Chart.yaml not found")
              ELSE pc' = "makedirs" /\ UNCHANGED <<ret, error>>
    /\ UNCHANGED <<inp, files, dirs, events, outputs, fnvars>>

\* line 273: os.makedirs(destination, exist_ok=True)
MakeDestination ==
    /\ pc = "makedirs"
    /\ dirs' = dirs \cup Ancestors(local.destination)
    /\ events' = Append(events, Event("makedirs", local.destination, <<>>))
    /\ pc' = "install"
    /\ UNCHANGED <<inp, local, files, outputs, ret, error, fnvars>>

\* line 275: install_helm downloads, verifies and installs the tool, or raises
InstallHelm ==
    /\ pc = "install"
    /\ events' = Append(events, Event("install_helm", <<>>, <<>>))
    /\ \/ pc' = "parse" /\ UNCHANGED <<ret, error>>
       \/ Raise("install_helm failed")
    /\ UNCHANGED <<inp, local, files, dirs, outputs, fnvars>>

\* mutant: the merge branch is taken for an empty list too
ParseValuesFiles_always_merge ==
    /\ pc = "parse"
    /\ local' = [local EXCEPT !.values_files = parse_values_files(local.values_files_raw),
                              !.chart_path_for_packaging = local.chart_path,
                              !.merged_values = EmptyDict, !.i = 1]
    /\ pc' = "merge"
    /\ UNCHANGED <<inp, files, dirs, events, outputs, ret, error, fnvars>>

\* lines 277-281
ParseValuesFiles ==
    /\ pc = "parse"
    /\ LET values_files == parse_values_files(local.values_files_raw)
       IN  IF values_files # <<>>
           THEN /\ local' = [local EXCEPT !.values_files = values_files,
                                          !.chart_path_for_packaging = local.chart_path,
                                          !.merged_values = EmptyDict, !.i = 1]
                /\ pc' = "merge"
           ELSE /\ local' = [local EXCEPT !.values_files = values_files,
                                          !.chart_path_for_packaging = local.chart_path]
                /\ pc' = "dep"
    /\ UNCHANGED <<inp, files, dirs, events, outputs, ret, error, fnvars>>

\* lines 282-286: one turn of `for rel in values_files`, or its end
MergeValuesFile ==
    /\ pc = "merge"
    /\ IF local.i > Len(local.values_files)
       THEN pc' = "mkdtemp" /\ UNCHANGED <<local, ret, error>>
       ELSE LET rel == local.values_files[local.i]
                src_path == normpath(join(local.chart_path, rel))
            IN  IF ~isfile(files, src_path)
                THEN Raise("Values file not found") /\ UNCHANGED local
                ELSE /\ local' = [local EXCEPT
                             !.merged_values =
                                 deep_merge_values(local.merged_values,
                                                   load_yaml_file(files[src_path])),
                             !.i = local.i + 1]
                     /\ UNCHANGED <<pc, ret, error>>
    /\ UNCHANGED <<inp, files, dirs, events, outputs, fnvars>>

\* line 288: tempfile.mkdtemp(prefix=".dist-temporary-", dir=workspace)
MakeTempDir ==
    /\ pc = "mkdtemp"
    /\ \/ LET tmp_root == join(Workspace, TmpName)
          IN  /\ tmp_root \notin dirs
              /\ dirs' = dirs \cup {tmp_root}
              /\ events' = Append(events, Event("mkdtemp", tmp_root, <<>>))
              /\ local' = [local EXCEPT !.tmp_root = tmp_root]
              /\ pc' = "copytree"
              /\ UNCHANGED <<ret, error>>
       \/ Raise("mkdtemp failed") /\ UNCHANGED <<dirs, events, local>>
    /\ UNCHANGED <<inp, files, outputs, fnvars>>

\* lines 289-291: shutil.copytree(chart_path, tmp_chart).  It raises at once
\* when tmp_chart exists.  When tmp_chart lies inside chart_path the copy
\* descends into itself until a path is too long and raises with the
\* files copied (the model keeps the first level of directories).  It
\* collects the entries it cannot read, copies the others and raises.
CopyChart ==
    /\ pc = "copytree"
    /\ LET chart_name == basename(normpath(local.chart_path))
           tmp_chart == join(local.tmp_root, chart_name)
           dst == normpath(tmp_chart)
           copied == Event("copytree", dst, <<>>)
       IN  /\ local' = [local EXCEPT !.tmp_chart = tmp_chart]
           /\ IF dst \in dirs \/ dst \in DOMAIN files
              THEN Raise("copytree: destination exists") /\ UNCHANGED <<files, dirs, events>>
              ELSE IF PathUnder(dst, local.chart_path)
              THEN /\ files' = CopyFiles(files, local.chart_path, dst, {})
                   /\ dirs' = CopyDirs(dirs, local.chart_path, dst)
                   /\ events' = Append(events, copied)
                   /\ Raise("copytree: copy into itself")
              ELSE \/ /\ files' = CopyFiles(files, local.chart_path, dst, {})
                      /\ dirs' = CopyDirs(dirs, local.chart_path, dst)
                      /\ events' = Append(events, copied)
                      /\ pc' = "dump"
                      /\ UNCHANGED <<ret, error>>
                   \/ \E f \in {g \in DOMAIN files : PathUnder(g, local.chart_path)} :
                          /\ files' = CopyFiles(files, local.chart_path, dst, {f})
                          /\ dirs' = CopyDirs(dirs, local.chart_path, dst)
                          /\ events' = Append(events, copied)
                          /\ Raise("copytree: unreadable entry")
    /\ UNCHANGED <<inp, outputs, fnvars>>

\* lines 293-294: dump_yaml_file opens values.yaml of the copy for writing
DumpMergedValues ==
    /\ pc = "dump"
    /\ LET path == normpath(join(local.tmp_chart, ValuesYaml))
       IN  \/ /\ files' = [q \in DOMAIN files \cup {path} |->
                              IF q = path THEN local.merged_values ELSE files[q]]
              /\ events' = Append(events, Event("dump", path, <<>>))
              /\ local' = [local EXCEPT !.chart_path_for_packaging = local.tmp_chart]
              /\ pc' = "dep"
              /\ UNCHANGED <<ret, error>>
           \/ Raise("values write failed") /\ UNCHANGED <<files, events, local>>
    /\ UNCHANGED <<inp, dirs, outputs, fnvars>>

\* lines 296-300: helm dependency update writes Chart.lock into the chart
DependencyUpdate ==
    /\ pc = "dep"
    /\ IF ~local.dependency_update
       THEN pc' = "build" /\ UNCHANGED <<files, events, ret, error>>
       ELSE LET cmd == <<"helm", "dependency", "update", Str(local.chart_path_for_packaging)>>
                lock == normpath(join(local.chart_path_for_packaging, <<"Chart.lock">>))
            IN  /\ events' = Append(events, Event("run", local.chart_path_for_packaging, cmd))
                /\ \/ /\ files' = [q \in DOMAIN files \cup {lock} |->
                                      IF q = lock THEN Lock ELSE files[q]]
                      /\ pc' = "build"
                      /\ UNCHANGED <<ret, error>>
                   \/ Raise("helm dependency update failed") /\ UNCHANGED files
    /\ UNCHANGED <<inp, local, dirs, outputs, fnvars>>

\* lines 302-308
BuildCommand ==
    /\ pc = "build"
    /\ LET r == build_helm_package_cmd(Str(local.chart_path_for_packaging),
                                       Str(local.destination),
                                       Str(local.helm_chart_version),
                                       Str(local.helm_chart_app_version),
                                       local.package_args_in)
       IN  IF r.raised
           THEN Raise("shlex: no closing quotation") /\ UNCHANGED local
           ELSE /\ local' = [local EXCEPT !.cmd = r.cmd]
                /\ pc' = "package"
                /\ UNCHANGED <<ret, error>>
    /\ UNCHANGED <<inp, files, dirs, events, outputs, fnvars>>

\* what helm package may print on success
PackageOutputs(destination) ==
    {<<>>,
     <<"saved it to:", " ">> \o destination \o <<Slash, "c-1", ".tgz", "\n">>,
     <<"Saved It To:", " ", "d", Slash, "c-1", ".tgz">>,
     <<"saved it to:", " ", "\n">>}

\* lines 310-313: helm package exits nonzero, or exits zero having printed
\* something and having written an archive to the destination or not
RunPackage ==
    /\ pc = "package"
    /\ events' = Append(events, Event("run", local.chart_path_for_packaging, local.cmd))
    /\ \/ /\ local' = [local EXCEPT !.res = [returncode |-> 1, stdout |-> <<>>]]
          /\ Raise("helm package failed")
          /\ UNCHANGED files
       \/ \E out \in PackageOutputs(local.destination), written \in BOOLEAN :
              /\ local' = [local EXCEPT !.res = [returncode |-> 0, stdout |-> out]]
              /\ files' = IF written
                          THEN LET tgz == normpath(join(local.destination, <<"c-1", ".tgz">>))
                               IN  [q \in DOMAIN files \cup {tgz} |->
                                       IF q = tgz THEN Tgz(2) ELSE files[q]]
                          ELSE files
              /\ pc' = "extract"
              /\ UNCHANGED <<ret, error>>
    /\ UNCHANGED <<inp, dirs, outputs, fnvars>>

\* the orders glob may list a set of archives in
Listings(fs, S) ==
    {l \in SeqsUpTo([name : S, mtime : {1, 2}], Cardinality(S)) :
        /\ Len(l) = Cardinality(S)
        /\ {l[i].name : i \in 1..Len(l)} = S
        /\ \A i \in 1..Len(l) : l[i].mtime = fs[l[i].name].v}

\* lines 315-331
ExtractPackagePath ==
    /\ pc = "extract"
    /\ \E tgzs \in Listings(files, GlobTgz(files, local.destination)) :
           LET r == extract_package_path(local.res.stdout, tgzs)
           IN  IF r.raised
               THEN Raise("Could not determine created package path") /\ UNCHANGED local
               ELSE /\ local' = [local EXCEPT !.package_path = r.package_path]
                    /\ pc' = "output"
                    /\ UNCHANGED <<ret, error>>
    /\ UNCHANGED <<inp, files, dirs, events, outputs, fnvars>>

\* lines 333-339: write_output appends to $GITHUB_OUTPUT, or open() raises
WriteOutput ==
    /\ pc = "output"
    /\ LET package_path_abs ==
               IF ~isabs(local.package_path)
               THEN resolve_path(Workspace, local.package_path)
               ELSE normpath(local.package_path)
           package_path_out == workspace_relpath(Workspace, package_path_abs)
       IN  \/ /\ outputs' = Append(outputs, [name |-> "package_path",
                                             value |-> Str(package_path_out)])
              /\ pc' = "done"
              /\ ret' = 0
              /\ UNCHANGED error
           \/ Raise("write_output failed") /\ UNCHANGED outputs
    /\ UNCHANGED <<inp, local, files, dirs, events, fnvars>>

Next ==
    \/ ReadInputs \/ ValidateVersion \/ ResolveAndCheckChart \/ MakeDestination
    \/ InstallHelm \/ ParseValuesFiles \/ MergeValuesFile \/ MakeTempDir
    \/ CopyChart \/ DumpMergedValues \/ DependencyUpdate \/ BuildCommand
    \/ RunPackage \/ ExtractPackagePath \/ WriteOutput

Spec == Init /\ [][Next]_vars

(***************************************************************************)
(* What the inputs of a run say, read off the inputs alone.                *)
(***************************************************************************)
ChartDir == ChartDirOf(inp.chart_path)
ChartDirStr ==
    IF inp.chart_path = <<".">> THEN "/r/ws"
    ELSE IF inp.chart_path = DotDot THEN "/r" ELSE "/r/ws/c"
DestinationStr == IF inp.destination = <<>> THEN "/r/ws" ELSE "/r/ws/d"
TmpRoot == Workspace \o <<Slash>> \o TmpName

\* the values_files input names no file: empty, or delimiters and whitespace
NoValuesFiles ==
    \A i \in 1..Len(inp.values_files) : inp.values_files[i] \in {",", "\n", "\r", " "}

\* the list the values_files input stands for
ValuesList ==
    CASE inp.values_files = <<"a.yaml">> -> << <<"a.yaml">> >>
      [] inp.values_files = <<"a.yaml", ",", " ", "b.yaml">>
             -> << <<"a.yaml">>, <<"b.yaml">> >>
      [] inp.values_files = <<"b.yaml", "\n", "e.yaml", "\r", "\n", "a.yaml", ",">>
             -> << <<"b.yaml">>, <<"e.yaml">>, <<"a.yaml">> >>
      [] inp.values_files = <<"a.yaml", ",", "n.yaml">>
             -> << <<"a.yaml">>, <<"n.yaml">> >>
      [] OTHER -> <<>>

HasEvent(ops) == \E k \in 1..Len(events) : events[k].op \in ops

\* C1: in every run with a non-empty values_files list and for every chart
\* directory (also one that equals or contains the workspace root), the
\* merge and workspace steps create, overwrite or remove nothing under the
\* original chart directory: the merged document goes only to values.yaml
\* of the copy, and the chart's own values file is unchanged at the end.
C1_ChartDirNeverWritten ==
    ~NoValuesFiles =>
        /\ \A k \in 1..Len(events) :
               events[k].op \in {"mkdtemp", "copytree", "dump"}
                   => ~PathUnder(events[k].path, ChartDir)
        /\ \A k \in 1..Len(events) :
               events[k].op = "dump"
                   => events[k].path = TmpRoot \o <<Slash>> \o basename(ChartDir)
                                           \o <<Slash>> \o ValuesYaml
        /\ pc = "done" =>
               files[ChartDir \o <<Slash>> \o ValuesYaml]
                   = inp.files[ChartDir \o <<Slash>> \o ValuesYaml]

\* C2: whenever main() creates the temporary workspace copy, that temporary
\* directory has been removed by the time main() returns, on every exit
\* path.
C2_TempDirRemovedAtReturn ==
    (pc = "done" /\ HasEvent({"mkdtemp"})) => TmpRoot \notin dirs

\* C3: main() returns 0 if and only if exactly one package_path output was
\* written; a run that fails (invalid input, missing file, nonzero tool
\* exit, a zero-exit package call yielding no artifact path) returns 1 and
\* writes no output.
C3_ZeroIffOneOutput ==
    pc = "done" =>
        /\ ret \in {0, 1}
        /\ ret = 0 <=> (Len(outputs) = 1 /\ outputs[1].name = "package_path")
        /\ ret = 1 => outputs = <<>>
        /\ (\/ inp.helm_chart_version \in InvalidVersionInputs
            \/ inp.chart_path = <<>>
            \/ (ChartDir \o <<Slash>> \o ChartYaml) \notin DOMAIN inp.files
            \/ error # ""
            \/ /\ local.res.returncode = 0
               /\ \A i \in 1..Len(local.res.stdout) : ~IsMarker(local.res.stdout[i])
               /\ GlobTgz(files, local.destination) = {})
               => (ret = 1 /\ outputs = <<>>)

\* C3 witness: a zero-exit package call that printed nothing and left no
\* archive ended in a return of 1 without output
C3_Witness ==
    /\ pc = "done"
    /\ local.res.returncode = 0
    /\ local.res.stdout = <<>>
    /\ GlobTgz(files, local.destination) = {}
    /\ ret = 1
    /\ outputs = <<>>

\* an empty or null file counts as the empty mapping
NullAsEmpty(d) == IF d.t = "none" THEN EmptyDict ELSE d

RECURSIVE FoldMerge(_, _)
FoldMerge(acc, docs) ==
    IF docs = <<>> THEN acc
    ELSE FoldMerge(deep_merge_values(acc, Head(docs)), Tail(docs))

\* the node of document d at a path of keys
RECURSIVE HasPath(_, _)
HasPath(d, path) ==
    \/ path = <<>>
    \/ /\ d.t = "dict"
       /\ KeyIn(Head(path), d.v)
       /\ HasPath(GetItem(d.v, Head(path)), Tail(path))
RECURSIVE NodeAt(_, _)
NodeAt(d, path) ==
    IF path = <<>> THEN d ELSE NodeAt(GetItem(d.v, Head(path)), Tail(path))

DocKeys == {"w", "x", "y", "z"}
DocPaths == {<<>>} \cup {<<k>> : k \in DocKeys} \cup (DocKeys \X DocKeys)

\* at every node of the result that is not a mapping and that more than one
\* file defines, the value is that of the latest such file
LatestWins(docs, result) ==
    \A path \in DocPaths :
        LET defining == {i \in 1..Len(docs) : HasPath(docs[i], path)}
        IN  (/\ HasPath(result, path)
             /\ NodeAt(result, path).t # "dict"
             /\ Cardinality(defining) > 1)
                => NodeAt(result, path) = NodeAt(docs[Max(defining)], path)

\* C5: for every ordered list of values files, the document written to the
\* workspace copy is the left fold merge(...merge(merge({}, d1), d2)..., dn)
\* in list order, an empty or null file counting as the empty mapping; so at
\* every leaf or non-mapping node defined by more than one file the value of
\* the latest file appears.
C5_WrittenIsLeftFold ==
    \A k \in 1..Len(events) :
        events[k].op = "dump" =>
            LET docs == [i \in 1..Len(ValuesList) |->
                            NullAsEmpty(inp.files[ChartDir \o <<Slash>> \o ValuesList[i]])]
                written == files[events[k].path]
            IN  /\ ValuesList # <<>>
                /\ written = FoldMerge(EmptyDict, docs)
                /\ LatestWins(docs, written)

\* C5 witness: three files, the second empty, merged and written to the copy
C5_Witness ==
    /\ HasEvent({"dump"})
    /\ inp.values_files = <<"b.yaml", "\n", "e.yaml", "\r", "\n", "a.yaml", ",">>
    /\ inp.files[ChartDir \o <<Slash>> \o <<"a.yaml">>] = DocA
    /\ inp.files[ChartDir \o <<Slash>> \o <<"b.yaml">>] = DocB
    /\ files[TmpRoot \o <<Slash, "c", Slash>> \o ValuesYaml]
           = Dict(<< <<"w", ListDoc(<<1, 2>>)>>,
                     <<"x", Dict(<< <<"y", Scalar(1)>>, <<"z", Scalar(2)>> >>)>> >>)

\* C7: in every run whose chart version fails semver validation, or whose
\* chart directory has no Chart.yaml directly under it, the run fails before
\* any packaging step: no tool installation, no workspace copy, no
\* dependency-update call and no package call happens.
C7_RejectedBeforePackaging ==
    (\/ inp.helm_chart_version \in InvalidVersionInputs
     \/ (ChartDir \o <<Slash>> \o ChartYaml) \notin DOMAIN inp.files)
        => /\ ~HasEvent({"install_helm", "mkdtemp", "copytree", "dump", "run"})
           /\ pc = "done" => (ret = 1 /\ outputs = <<>>)

\* C7 witness: a run with a valid version and no Chart.yaml has ended
C7_Witness ==
    /\ pc = "done"
    /\ inp.helm_chart_version = <<"1", ".", "2", ".", "3">>
    /\ inp.chart_path = <<"c">>
    /\ (ChartDir \o <<Slash>> \o ChartYaml) \notin DOMAIN inp.files
    /\ ret = 1
    /\ events = <<>>

\* C8: when the parsed values_files list is empty (empty input, or only
\* delimiters and whitespace), no temporary directory and no chart copy is
\* created and the chart path handed to dependency update and package is the
\* original chart directory; with chart version 1.2.3, app version 4.5.6 and
\* no package_args the command is exactly [helm, package, chart,
\* --destination, dest, --version, 1.2.3, --app-version, 4.5.6].
C8_NoCopyWithoutValuesFiles ==
    NoValuesFiles =>
        /\ ~HasEvent({"mkdtemp", "copytree", "dump"})
        /\ \A d \in dirs : ~PathUnder(d, TmpRoot)
        /\ \A f \in DOMAIN files : ~PathUnder(f, TmpRoot)
        /\ \A k \in 1..Len(events) :
               events[k].op = "run" =>
                   /\ events[k].cmd[2] = "dependency" => events[k].cmd[4] = ChartDirStr
                   /\ events[k].cmd[2] = "package" => events[k].cmd[3] = ChartDirStr
                   /\ (/\ events[k].cmd[2] = "package"
                       /\ inp.helm_chart_version = <<"1", ".", "2", ".", "3">>
                       /\ inp.package_args = <<>>)
                          => events[k].cmd = <<"helm", "package", ChartDirStr,
                                               "--destination", DestinationStr,
                                               "--version", "1.2.3",
                                               "--app-version", "4.5.6">>

\* C8 witness: values_files held only delimiters and whitespace, dependency
\* update and package ran on the original chart directory
C8_Witness ==
    /\ inp.values_files = <<" ", ",", "\n", " ">>
    /\ inp.package_args = <<>>
    /\ Len(events) = 4
    /\ events[3].cmd = <<"helm", "dependency", "update", "/r/ws/c">>
    /\ events[4].cmd = <<"helm", "package", "/r/ws/c", "--destination", "/r/ws/d",
                         "--version", "1.2.3", "--app-version", "4.5.6">>

====
